---- MODULE Spec2Model ----
(***************************************************************************)
(* Model of the payment gateway of cloudbera60-web/payment-portal.         *)
(*                                                                         *)
(* The repository holds three iterations of the same Express server:       *)
(*   "v1"  src/server.js lines 1-485      (Map ledger, nested try/catch)   *)
(*   "v2"  src/server.js lines 487-1039   (Map ledger, winston, timeout)   *)
(*   "v3"  src/unnamed/part_000           (array ledger)                   *)
(* A deployment runs one of them; the variable `variant` fixes which.      *)
(*                                                                         *)
(* JavaScript values are records [t, s, n]: t is the type tag ("undef",    *)
(* "str", "num", "nan"), s the text of a string, n a number in             *)
(* thousandths (1 KES = 1000).  Strings are TLA+ strings; their characters *)
(* are read with SubSeq.                                                   *)
(***************************************************************************)
EXTENDS Integers, Sequences, FiniteSets, TLC

VARIABLES
    variant,       \* which iteration of the server runs
    transactions,  \* the ledger: sequence of records (Map insertion order / array order)
    inflight,      \* provider calls awaited by suspended handlers
    now,           \* the clock (milliseconds since the model's epoch)
    last,          \* the step the server took last: request, response
    arg,           \* input of the pure function under check
    res            \* its outcome

vars == <<variant, transactions, inflight, now, last, arg, res>>

Variants == {"v1", "v2", "v3"}

-----------------------------------------------------------------------------
(* Bounds of the model *)

MaxTx == 2
MaxInflight == 1
MaxClock == 1
MaxRand == 1

-----------------------------------------------------------------------------
(* JavaScript values *)

Undef == [t |-> "undef", s |-> "", n |-> 0]
NaN == [t |-> "nan", s |-> "", n |-> 0]
Str(s) == [t |-> "str", s |-> s, n |-> 0]
Num(n) == [t |-> "num", s |-> "", n |-> n]
Units(k) == k * 1000

Digits == {"0", "1", "2", "3", "4", "5", "6", "7", "8", "9"}
Whitespace == {" ", "\t"}

CharAt(s, i) == SubSeq(s, i, i)
StartsWith(s, p) == Len(s) >= Len(p) /\ SubSeq(s, 1, Len(p)) = p
Substring(s, from) == SubSeq(s, from + 1, Len(s))
Includes(s, needle) ==
    \E i \in 1..(Len(s) - Len(needle) + 1) : SubSeq(s, i, i + Len(needle) - 1) = needle

RECURSIVE TrimStart(_)
TrimStart(s) ==
    IF Len(s) > 0 /\ CharAt(s, 1) \in Whitespace THEN TrimStart(Substring(s, 1)) ELSE s

RECURSIVE TrimEnd(_)
TrimEnd(s) ==
    IF Len(s) > 0 /\ CharAt(s, Len(s)) \in Whitespace
    THEN TrimEnd(SubSeq(s, 1, Len(s) - 1)) ELSE s

Trim(s) == TrimEnd(TrimStart(s))

\* s.replace(/\s+/g, '')
RECURSIVE RemoveWhitespace(_)
RemoveWhitespace(s) ==
    IF Len(s) = 0 THEN s
    ELSE IF CharAt(s, 1) \in Whitespace THEN RemoveWhitespace(Substring(s, 1))
    ELSE CharAt(s, 1) \o RemoveWhitespace(Substring(s, 1))

DigitChar(d) ==
    CASE d = 0 -> "0" [] d = 1 -> "1" [] d = 2 -> "2" [] d = 3 -> "3" [] d = 4 -> "4"
      [] d = 5 -> "5" [] d = 6 -> "6" [] d = 7 -> "7" [] d = 8 -> "8" [] d = 9 -> "9"

DigitVal(c) ==
    CASE c = "0" -> 0 [] c = "1" -> 1 [] c = "2" -> 2 [] c = "3" -> 3 [] c = "4" -> 4
      [] c = "5" -> 5 [] c = "6" -> 6 [] c = "7" -> 7 [] c = "8" -> 8 [] c = "9" -> 9

RECURSIVE NatToString(_)
NatToString(k) ==
    IF k < 10 THEN DigitChar(k) ELSE NatToString(k \div 10) \o DigitChar(k % 10)

\* The fraction digits of f thousandths, trailing zeros dropped: 500 -> "5"
FracToString(f) ==
    IF f % 100 = 0 THEN DigitChar(f \div 100)
    ELSE IF f % 10 = 0 THEN DigitChar(f \div 100) \o DigitChar((f \div 10) % 10)
    ELSE DigitChar(f \div 100) \o DigitChar((f \div 10) % 10) \o DigitChar(f % 10)

\* Number.prototype.toString of a non-negative number held in thousandths
NumToString(n) ==
    IF n % 1000 = 0 THEN NatToString(n \div 1000)
    ELSE NatToString(n \div 1000) \o "." \o FracToString(n % 1000)

\* value.toString() of a string or a number
JsToString(v) == IF v.t = "str" THEN v.s ELSE NumToString(v.n)

\* JavaScript truthiness: undefined, "", 0 and NaN are falsy
Truthy(v) ==
    CASE v.t = "undef" -> FALSE
      [] v.t = "nan" -> FALSE
      [] v.t = "str" -> v.s # ""
      [] v.t = "num" -> v.n # 0

-----------------------------------------------------------------------------
(* parseFloat *)

\* The length of the longest prefix of s made of digits
RECURSIVE DigitRun(_)
DigitRun(s) ==
    IF Len(s) > 0 /\ CharAt(s, 1) \in Digits THEN 1 + DigitRun(Substring(s, 1)) ELSE 0

RECURSIVE DigitsValue(_)
DigitsValue(s) ==
    IF Len(s) = 0 THEN 0
    ELSE DigitsValue(SubSeq(s, 1, Len(s) - 1)) * 10 + DigitVal(CharAt(s, Len(s)))

\* The first three fraction digits as thousandths (inputs carry at most three)
FracValue(s) ==
    LET d(i) == IF i <= Len(s) THEN DigitVal(CharAt(s, i)) ELSE 0
    IN  d(1) * 100 + d(2) * 10 + d(3)

\* parseFloat of the text s: leading whitespace, a sign, digits, a fraction;
\* what follows the number is ignored, and no number at all is NaN.
ParseFloatString(s) ==
    LET t == TrimStart(s)
        neg == StartsWith(t, "-")
        u == IF neg \/ StartsWith(t, "+") THEN Substring(t, 1) ELSE t
        k == DigitRun(u)
        ip == SubSeq(u, 1, k)
        rest == Substring(u, k)
        hasFrac == StartsWith(rest, ".")
        fk == IF hasFrac THEN DigitRun(Substring(rest, 1)) ELSE 0
        fp == IF hasFrac THEN SubSeq(rest, 2, 1 + fk) ELSE ""
        mag == DigitsValue(ip) * 1000 + FracValue(fp)
    IN  IF k = 0 /\ fk = 0 THEN NaN
        ELSE Num(IF neg THEN 0 - mag ELSE mag)

parseFloat(v) ==
    CASE v.t = "num" -> v
      [] v.t = "str" -> ParseFloatString(v.s)
      [] OTHER -> NaN

\* Number.prototype.toFixed(2): the text of n rounded to hundredths.  (A number
\* whose third decimal is 5 rounds by its binary expansion; the inputs of the
\* model carry no such number.)
toFixed2(n) ==
    LET h == (n + 5) \div 10
    IN  NatToString(h \div 100) \o "." \o DigitChar((h \div 10) % 10) \o DigitChar(h % 10)

-----------------------------------------------------------------------------
(* Utility functions *)

Return(v) == [ok |-> TRUE, value |-> v, msg |-> ""]
Throw(m) == [ok |-> FALSE, value |-> Undef, msg |-> m]

COUNTRY_CODE == "254"
PHONE_LENGTH == 12
MIN_AMOUNT == 1
MAX_AMOUNT == 150000

\* The text formatPhoneNumber starts from: v1 and v2 take phone.toString(), trim it
\* and remove every whitespace; v3 calls phone.trim(), which only a string has.
PhoneText(v, phone) ==
    IF v = "v3" THEN Trim(phone.s) ELSE RemoveWhitespace(Trim(JsToString(phone)))

LengthMessage(v) ==
    CASE v = "v1" -> "Invalid phone number length. Use 254XXXXXXXXX format"
      [] v = "v2" -> "Invalid phone number length"
      [] v = "v3" -> "Phone number must be 12 digits (254XXXXXXXXX)"

\* formatPhoneNumber with the leading 0 kept behind the country code
\* ('254' + formatted instead of '254' + formatted.substring(1))
formatPhoneNumberKeepingZero(v, phone) ==
    IF v = "v3" /\ phone.t # "str" THEN Throw("phone.trim is not a function")
    ELSE
    LET text == PhoneText(v, phone)
        formatted == IF StartsWith(text, "0") THEN COUNTRY_CODE \o text
                     ELSE IF StartsWith(text, "+") THEN Substring(text, 1)
                     ELSE text
    IN  IF ~StartsWith(formatted, COUNTRY_CODE) THEN Throw("Phone number must start with 254")
        ELSE IF Len(formatted) # PHONE_LENGTH THEN Throw(LengthMessage(v))
        ELSE Return(Str(formatted))

formatPhoneNumber(v, phone) ==
    IF v = "v3" /\ phone.t # "str" THEN Throw("phone.trim is not a function")
    ELSE
    LET text == PhoneText(v, phone)
        formatted == IF StartsWith(text, "0") THEN COUNTRY_CODE \o Substring(text, 1)
                     ELSE IF StartsWith(text, "+") THEN Substring(text, 1)
                     ELSE text
    IN  IF ~StartsWith(formatted, COUNTRY_CODE) THEN Throw("Phone number must start with 254")
        ELSE IF Len(formatted) # PHONE_LENGTH THEN Throw(LengthMessage(v))
        ELSE Return(Str(formatted))

validateAmount(v, amount) ==
    LET numAmount == parseFloat(amount)
    IN  IF numAmount.t = "nan" \/ numAmount.n <= 0
        THEN Throw("Amount must be a positive number")
        ELSE IF v # "v3" /\ numAmount.n < Units(MIN_AMOUNT)
        THEN Throw("Minimum amount is KES 1")
        ELSE IF v # "v3" /\ numAmount.n > Units(MAX_AMOUNT)
        THEN Throw("Maximum amount is KES 150,000")
        ELSE IF v = "v2" THEN Return(Str(toFixed2(numAmount.n)))
        ELSE Return(numAmount)

-----------------------------------------------------------------------------
(* The ledger *)

\* What the provider may put in response.data.status; "" stands for a missing
\* (falsy) status.
ProviderStatuses == {"", "SUCCESS", "FAILED"}

Transaction(id, type, status, amount, phone, t, checked, data) ==
    [id |-> id, type |-> type, status |-> status, amount |-> amount, phone |-> phone,
     timestamp |-> t, last_checked |-> checked, response |-> data]

Ids(ledger) == {ledger[i].id : i \in 1..Len(ledger)}

\* transactions.findIndex(t => t.id === reference), 0 when there is none; a Map
\* holds at most one record per key, so the same lookup is transactions.get.
FindIndex(ledger, ref) ==
    IF ref \in Ids(ledger)
    THEN CHOOSE i \in 1..Len(ledger) :
            /\ ledger[i].id = ref
            /\ \A j \in 1..(i - 1) : ledger[j].id # ref
    ELSE 0

\* transactions.set(reference, transaction): a new key is added at the end, an
\* existing key keeps its place and gets the new value.
MapSet(ledger, rec) ==
    IF rec.id \in Ids(ledger)
    THEN [ledger EXCEPT ![FindIndex(ledger, rec.id)] = rec]
    ELSE Append(ledger, rec)

\* transactions.unshift(transaction)
Unshift(ledger, rec) == <<rec>> \o ledger

StoreTransaction(v, ledger, rec) ==
    IF v = "v3" THEN Unshift(ledger, rec) ELSE MapSet(ledger, rec)

\* transactions.delete(reference)
MapDelete(ledger, ref) ==
    LET i == FindIndex(ledger, ref)
    IN  IF i = 0 THEN ledger
        ELSE SubSeq(ledger, 1, i - 1) \o SubSeq(ledger, i + 1, Len(ledger))

\* The update of a status check that also takes the amount from the provider's
\* response, which carries none
UpdateStatusAndAmount(v, ledger, i, data, t) ==
    [ledger EXCEPT ![i] = [@ EXCEPT
        !.status = IF v = "v3" THEN data ELSE (IF data = "" THEN "UNKNOWN" ELSE data),
        !.amount = 0,
        !.last_checked = t,
        !.response = data]]

\* The update a status check makes to the record at index i
UpdateStatus(v, ledger, i, data, t) ==
    [ledger EXCEPT ![i] = [@ EXCEPT
        !.status = IF v = "v3" THEN data ELSE (IF data = "" THEN "UNKNOWN" ELSE data),
        !.last_checked = t,
        !.response = data]]

-----------------------------------------------------------------------------
(* Requests, provider calls and responses *)

\* What a handler step leaves behind: the request it served (op, ref), where it
\* ended (stage), the HTTP status it answered with (0: no answer yet, the handler
\* awaits the provider) and the fields of the answer.
\*   stage "validation": rejected before any provider call
\*         "called":     the provider call is issued, the handler is suspended
\*         "answered":   the provider answered and the handler completed
\*         "cache":      a status check answered from the ledger
\*         "failed":     the provider call failed and the handler reported it
Response(op, stage, code, ref, status, amount, phone, provider, error) ==
    [op |-> op, stage |-> stage, code |-> code, ref |-> ref, status |-> status,
     amount |-> amount, phone |-> phone, provider |-> provider, error |-> error]

NoResponse == Response("none", "", 0, "", "", Undef, "", "", "")

\* A provider call a handler awaits, with what the suspended handler holds: the
\* request's body, the reference, validatedAmount and formattedPhone
Call(op, ref, amount, phone, body) ==
    [op |-> op, ref |-> ref, amount |-> amount, phone |-> phone, body |-> body]

\* The body of a GET request
NoBody == [phone_number |-> Undef, amount |-> Undef]

\* How the provider call ends: a 2xx response with its data.status, a response
\* with an error status (error.response set), or no response at all
\* (error.request set: unreachable, or the timeout of v2 expired).
Ok(status) == [kind |-> "ok", code |-> 200, status |-> status]
Http(code) == [kind |-> "http", code |-> code, status |-> ""]
NetworkError == [kind |-> "net", code |-> 0, status |-> ""]

\* error.response?.status || 500
ErrorStatus(out) == IF out.kind = "http" THEN out.code ELSE 500

ProviderLabel(out) ==
    CASE out.kind = "ok" -> "ok"
      [] out.kind = "net" -> "net"
      [] OTHER -> NatToString(out.code)

\* What a handler step yields: the answer, the provider calls it issues and the ledger
Step(resp, calls, ledger) == [resp |-> resp, calls |-> calls, ledger |-> ledger]

\* Date.now() as text: 13 digits
DateNow(t) == "170000000000" \o NatToString(t)

\* Math.random().toString(36).substr(2, 6): six base-36 characters
RandomSuffix(r) == "k3x9z" \o NatToString(r)

\* The reference of a request that supplies none.  v1: tag, Date.now() and
\* Math.floor(Math.random() * 1000); v2 and v3: tag-Date.now()-suffix, the suffix
\* in upper case in v2.
GenerateReference(v, tag, t, r) ==
    CASE v = "v1" -> tag \o DateNow(t) \o NatToString(r)
      [] v = "v2" -> tag \o "-" \o DateNow(t) \o "-" \o "K3X9Z" \o NatToString(r)
      [] v = "v3" -> tag \o "-" \o DateNow(t) \o "-" \o RandomSuffix(r)

-----------------------------------------------------------------------------
(* POST /api/stk-push *)

\* The status a thrown validation error is answered with.  v1 answers 400 from its
\* outer catch.  v2's stk-push answers 400 only when the message includes
\* 'Phone number' or 'Amount' (case-sensitive) and 500 otherwise; its withdraw
\* answers error.response?.status || 500.  v3 answers 500.
ThrownStatus(v, op, msg) ==
    CASE v = "v1" -> 400
      [] v = "v2" /\ op = "stk" ->
            IF Includes(msg, "Phone number") \/ Includes(msg, "Amount") THEN 400 ELSE 500
      [] OTHER -> 500

\* The message the answer carries for a thrown validation error
ThrownError(v, op, msg) ==
    CASE v = "v2" /\ op = "stk" ->
            IF Includes(msg, "Phone number") \/ Includes(msg, "Amount") THEN msg
            ELSE "Failed to initiate payment"
      [] v = "v2" /\ op = "wdr" -> "Failed to initiate withdrawal"
      [] OTHER -> msg

\* A rejection that leaves behind the ledger entry of a handler that stores its
\* record before it validates
RejectedKeepingEntry(v, op, code, msg, ledger) ==
    Step(Response(op, "validation", code, "", "", Undef, "", "", msg), <<>>,
         StoreTransaction(v, ledger,
                          Transaction("", IF op = "stk" THEN "C2B" ELSE "B2C", "PENDING",
                                      0, "", 0, 0 - 1, "")))

\* The answer to a request rejected in validation: no call, the ledger as it is
Rejected(v, op, code, msg, ledger) ==
    Step(Response(op, "validation", code, "", "", Undef, "", "", msg), <<>>, ledger)

\* The handler up to its await: validation, the reference, the provider call
StkPushBegin(v, body, ledger, t, r) ==
    IF ~Truthy(body.phone_number) \/ ~Truthy(body.amount)
    THEN Rejected(v, "stk", 400, "Phone number and amount are required", ledger)
    ELSE
    LET formattedPhone == formatPhoneNumber(v, body.phone_number)
        validatedAmount == validateAmount(v, body.amount)
        reference == IF Truthy(body.external_reference) THEN body.external_reference.s
                     ELSE GenerateReference(v, "BERA", t, r)
    IN  IF ~formattedPhone.ok
        THEN Rejected(v, "stk", ThrownStatus(v, "stk", formattedPhone.msg),
                      ThrownError(v, "stk", formattedPhone.msg), ledger)
        ELSE IF ~validatedAmount.ok
        THEN Rejected(v, "stk", ThrownStatus(v, "stk", validatedAmount.msg),
                      ThrownError(v, "stk", validatedAmount.msg), ledger)
        ELSE Step(Response("stk", "called", 0, reference, "", validatedAmount.value,
                           formattedPhone.value.s, "", ""),
                  <<Call("stk", reference, validatedAmount.value, formattedPhone.value.s,
                         body)>>,
                  ledger)

\* The amount a record stores: validatedAmount, which v2 parses back from the
\* text toFixed(2) gave
StoredAmount(v, validatedAmount) ==
    IF v = "v2" THEN parseFloat(validatedAmount).n ELSE validatedAmount.n

\* last_checked of a new record: v2 sets it, v1 and v3 leave it undefined (-1)
InitialChecked(v, t) == IF v = "v2" THEN t ELSE 0 - 1

\* The handler after its await, storing the record the way the withdraw handler
\* stores its own (type B2C, status PROCESSING)
StkPushEndStoringWithdrawal(v, call, out, ledger, t) ==
    IF out.kind = "ok"
    THEN LET transaction == Transaction(call.ref, "B2C", "PROCESSING",
                                        StoredAmount(v, call.amount), call.phone, t,
                                        InitialChecked(v, t), "accepted")
         IN  Step(Response("stk", "answered", 200, call.ref, "PROCESSING", call.amount,
                           call.phone, "ok", ""),
                  <<>>, StoreTransaction(v, ledger, transaction))
    ELSE Step(Response("stk", "failed", IF v = "v3" THEN 500 ELSE ErrorStatus(out),
                       call.ref, "", Undef, "", ProviderLabel(out), "provider"),
              <<>>, ledger)

\* The handler after its await
StkPushEnd(v, call, out, ledger, t) ==
    IF out.kind = "ok"
    THEN LET status == IF v = "v3" THEN "QUEUED" ELSE "PENDING"
             transaction == Transaction(call.ref, "C2B", status,
                                        StoredAmount(v, call.amount), call.phone, t,
                                        InitialChecked(v, t), "accepted")
         IN  Step(Response("stk", "answered", 200, call.ref, status, call.amount,
                           call.phone, "ok", ""),
                  <<>>, StoreTransaction(v, ledger, transaction))
    ELSE Step(Response("stk", "failed", IF v = "v3" THEN 500 ELSE ErrorStatus(out),
                       call.ref, "", Undef, "", ProviderLabel(out), "provider"),
              <<>>, ledger)

-----------------------------------------------------------------------------
(* POST /api/withdraw *)

validNetworks == {"63902", "63903"}

WithdrawBegin(v, body, ledger, t, r) ==
    IF ~Truthy(body.phone_number) \/ ~Truthy(body.amount) \/ ~Truthy(body.network_code)
    THEN Rejected(v, "wdr", 400, "Phone number, amount, and network code are required",
                  ledger)
    ELSE IF ~(body.network_code.t = "str" /\ body.network_code.s \in validNetworks)
    THEN Rejected(v, "wdr", 400,
                  "Invalid network code. Use 63902 for M-Pesa or 63903 for Airtel", ledger)
    ELSE
    LET formattedPhone == formatPhoneNumber(v, body.phone_number)
        validatedAmount == validateAmount(v, body.amount)
        reference == GenerateReference(v, "WDR", t, r)
    IN  IF ~formattedPhone.ok
        THEN Rejected(v, "wdr", ThrownStatus(v, "wdr", formattedPhone.msg),
                      ThrownError(v, "wdr", formattedPhone.msg), ledger)
        ELSE IF ~validatedAmount.ok
        THEN Rejected(v, "wdr", ThrownStatus(v, "wdr", validatedAmount.msg),
                      ThrownError(v, "wdr", validatedAmount.msg), ledger)
        ELSE Step(Response("wdr", "called", 0, reference, "", validatedAmount.value,
                           formattedPhone.value.s, "", ""),
                  <<Call("wdr", reference, validatedAmount.value, formattedPhone.value.s,
                         body)>>,
                  ledger)

WithdrawEnd(v, call, out, ledger, t) ==
    IF out.kind = "ok"
    THEN LET transaction == Transaction(call.ref, "B2C", "PROCESSING",
                                        StoredAmount(v, call.amount), call.phone, t,
                                        InitialChecked(v, t), "accepted")
         IN  Step(Response("wdr", "answered", 200, call.ref, "PROCESSING", call.amount,
                           call.phone, "ok", ""),
                  <<>>, StoreTransaction(v, ledger, transaction))
    ELSE Step(Response("wdr", "failed", IF v = "v3" THEN 500 ELSE ErrorStatus(out),
                       call.ref, "", Undef, "", ProviderLabel(out), "provider"),
              <<>>, ledger)

-----------------------------------------------------------------------------
(* GET /api/transaction-status/:reference *)

\* The route only matches a non-empty reference, so the handler's own check of
\* it never rejects; the handler goes straight to the provider.
StatusBegin(v, reference, ledger) ==
    Step(Response("status", "called", 0, reference, "", Undef, "", "", ""),
         <<Call("status", reference, Undef, "", NoBody)>>, ledger)

\* The answer from the ledger's record (the local cache)
FromCache(v, reference, rec, out) ==
    Response("status", "cache", 200, reference,
             IF v = "v1" /\ rec.status = "" THEN "UNKNOWN" ELSE rec.status,
             Num(rec.amount), rec.phone, ProviderLabel(out), "")

\* Whether the failed status call falls back to the ledger: v1 on any failure,
\* v2 when the provider answered 404, v3 never.
FallsBack(v, out) ==
    CASE v = "v1" -> TRUE
      [] v = "v2" -> out.kind = "http" /\ out.code = 404
      [] OTHER -> FALSE

\* The handler after its await, storing a record of the provider's answer when
\* the ledger has none for the reference (transactions.set without the lookup)
StatusEndUpserting(v, call, out, ledger, t) ==
    LET i == FindIndex(ledger, call.ref)
        status == IF v # "v3" /\ out.status = "" THEN "UNKNOWN" ELSE out.status
    IN  IF out.kind = "ok"
        THEN Step(Response("status", "answered", 200, call.ref, status,
                           Undef, "", "ok", ""),
                  <<>>,
                  IF i # 0 THEN UpdateStatus(v, ledger, i, out.status, t)
                  ELSE StoreTransaction(v, ledger,
                                        Transaction(call.ref, "C2B", status, 0, "", t, t,
                                                    out.status)))
        ELSE IF FallsBack(v, out) /\ i # 0
        THEN Step(FromCache(v, call.ref, ledger[i], out), <<>>, ledger)
        ELSE Step(Response("status", "failed", IF v = "v3" THEN 500 ELSE ErrorStatus(out),
                           call.ref, "", Undef, "", ProviderLabel(out), "provider"),
                  <<>>, ledger)

StatusEnd(v, call, out, ledger, t) ==
    LET i == FindIndex(ledger, call.ref)
    IN  IF out.kind = "ok"
        THEN Step(Response("status", "answered", 200, call.ref,
                           IF v # "v3" /\ out.status = "" THEN "UNKNOWN" ELSE out.status,
                           Undef, "", "ok", ""),
                  <<>>,
                  IF i # 0 THEN UpdateStatus(v, ledger, i, out.status, t) ELSE ledger)
        ELSE IF FallsBack(v, out) /\ i # 0
        THEN Step(FromCache(v, call.ref, ledger[i], out), <<>>, ledger)
        ELSE Step(Response("status", "failed", IF v = "v3" THEN 500 ELSE ErrorStatus(out),
                           call.ref, "", Undef, "", ProviderLabel(out), "provider"),
                  <<>>, ledger)

-----------------------------------------------------------------------------
(* DELETE /api/transactions/:reference *)

\* Whether the iteration registers app.delete('/api/transactions/:reference')
HasDeleteRoute(v) == v \in {"v1", "v2"}

\* The delete handler answering 404 for a reference the ledger does not hold
DeleteTransactionOrNotFound(v, reference, ledger) ==
    IF ~HasDeleteRoute(v)
    THEN Step(Response("delete", "answered", 404, reference, "", Undef, "", "",
                       "Endpoint not found"), <<>>, ledger)
    ELSE IF reference \notin Ids(ledger)
    THEN Step(Response("delete", "answered", 404, reference, "", Undef, "", "",
                       "Transaction not found"), <<>>, ledger)
    ELSE Step(Response("delete", "answered", 200, reference, "", Undef, "", "",
                       "Transaction cleared"),
              <<>>, MapDelete(ledger, reference))

\* v1 and v2 delete from the Map and answer 200 either way; v3 has no such route
\* and its 404 handler answers.
DeleteTransaction(v, reference, ledger) ==
    IF ~HasDeleteRoute(v)
    THEN Step(Response("delete", "answered", 404, reference, "", Undef, "", "",
                       "Endpoint not found"), <<>>, ledger)
    ELSE Step(Response("delete", "answered", 200, reference, "", Undef, "", "",
                       IF reference \in Ids(ledger) THEN "Transaction cleared"
                       ELSE "Transaction not found"),
              <<>>, MapDelete(ledger, reference))

-----------------------------------------------------------------------------
(* GET /api/transactions: the statistics *)

\* transactions.filter(t => <field> in values).length
CountType(ledger, types) == Cardinality({i \in 1..Len(ledger) : ledger[i].type \in types})
CountStatus(ledger, statuses) ==
    Cardinality({i \in 1..Len(ledger) : ledger[i].status \in statuses})

RECURSIVE SumAmounts(_)
SumAmounts(ledger) ==
    IF Len(ledger) = 0 THEN 0 ELSE Head(ledger).amount + SumAmounts(Tail(ledger))

\* The statuses the listing counts as pending
PendingStatuses(v) == IF v = "v3" THEN {"QUEUED", "PROCESSING"} ELSE {"PENDING", "PROCESSING"}

Statistics(v, ledger) ==
    [total |-> Len(ledger),
     c2b |-> CountType(ledger, {"C2B"}),
     b2c |-> CountType(ledger, {"B2C"}),
     successful |-> CountStatus(ledger, {"SUCCESS"}),
     failed |-> CountStatus(ledger, {"FAILED"}),
     pending |-> CountStatus(ledger, PendingStatuses(v)),
     total_amount |-> SumAmounts(ledger)]

-----------------------------------------------------------------------------
(* GET /api/transactions: the listing *)

\* parseInt of a query parameter: a number is truncated, a text gives its
\* leading integer, anything else NaN
parseInt(v) ==
    CASE v.t = "num" -> Num((v.n \div 1000) * 1000)
      [] v.t = "str" ->
            LET t == TrimStart(v.s)
                neg == StartsWith(t, "-")
                u == IF neg \/ StartsWith(t, "+") THEN Substring(t, 1) ELSE t
                k == DigitRun(u)
                mag == Units(DigitsValue(SubSeq(u, 1, k)))
            IN  IF k = 0 THEN NaN ELSE Num(IF neg THEN 0 - mag ELSE mag)
      [] OTHER -> NaN

\* array.slice(0, end): NaN counts as 0, a negative end counts from the back
Slice(seq, end) ==
    LET e == IF end.t = "nan" THEN 0 ELSE end.n \div 1000
        stop == IF e < 0 THEN (IF Len(seq) + e < 0 THEN 0 ELSE Len(seq) + e)
                ELSE IF e > Len(seq) THEN Len(seq) ELSE e
    IN  SubSeq(seq, 1, stop)

\* sort((a, b) => new Date(b.timestamp) - new Date(a.timestamp)): newest first,
\* records of the same time in the order they had (the sort is stable)
RECURSIVE InsertDesc(_, _)
InsertDesc(sorted, rec) ==
    IF sorted = <<>> THEN <<rec>>
    ELSE IF Head(sorted).timestamp >= rec.timestamp
    THEN <<Head(sorted)>> \o InsertDesc(Tail(sorted), rec)
    ELSE <<rec>> \o sorted

RECURSIVE SortDesc(_)
SortDesc(seq) ==
    IF Len(seq) <= 1 THEN seq
    ELSE InsertDesc(SortDesc(SubSeq(seq, 1, Len(seq) - 1)), seq[Len(seq)])

\* filter(t => t.type === type) when type is C2B or B2C, everything otherwise
FilterType(seq, type) ==
    LET Matches(rec) == rec.type = type.s
    IN  IF Truthy(type) /\ type.t = "str" /\ type.s \in {"C2B", "B2C"}
        THEN SelectSeq(seq, Matches) ELSE seq

\* The limit a request without one gets: v2 50, v3 100
DefaultLimit(v) == IF v = "v2" THEN 50 ELSE 100

\* The slice v1 always takes
FixedLimit == 50

ListResponse(query, items) ==
    [op |-> "list", stage |-> "answered", code |-> 200, ref |-> "", status |-> "",
     amount |-> Undef, phone |-> "", provider |-> "", error |-> "",
     query |-> query, items |-> items]

\* v1 sorts and takes the first 50 whatever the query; v2 sorts, filters and
\* slices to parseInt(limit); v3 filters the array as it is and slices.
ListTransactions(v, query, ledger) ==
    LET limit == IF query.limit.t = "undef" THEN Num(Units(DefaultLimit(v)))
                 ELSE query.limit
        items == CASE v = "v1" -> Slice(SortDesc(ledger), Num(Units(FixedLimit)))
                   [] v = "v2" -> Slice(FilterType(SortDesc(ledger), query.type),
                                        parseInt(limit))
                   [] v = "v3" -> Slice(FilterType(ledger, query.type), parseInt(limit))
    IN  Step(ListResponse(query, items), <<>>, ledger)

-----------------------------------------------------------------------------
(* GET /api/transaction-fees *)

FEE_RATE_PER_MILLE == 15

\* Math.max(floor, amountNum * 0.015), in thousandths
Fee(amountNum, floor) ==
    LET share == (amountNum * FEE_RATE_PER_MILLE) \div 1000
    IN  IF share > Units(floor) THEN share ELSE Units(floor)

\* The minimum fee: 10 KES in v1 and v2, 1 KES in v3
FeeFloor(v) == IF v = "v3" THEN 1 ELSE 10

NoEstimate == [present |-> FALSE, amount |-> Undef, fee |-> Undef, total |-> Undef]

\* calculatedFees.  v1 and v2 compute it for a positive number only; v3 computes
\* it for any truthy amount, and from NaN gets NaN.
Calculated(v, amount) ==
    LET amountNum == parseFloat(amount)
    IN  IF ~Truthy(amount) THEN NoEstimate
        ELSE IF amountNum.t = "nan"
        THEN (IF v = "v3"
              THEN [present |-> TRUE, amount |-> NaN, fee |-> NaN, total |-> NaN]
              ELSE NoEstimate)
        ELSE IF v # "v3" /\ amountNum.n <= 0 THEN NoEstimate
        ELSE [present |-> TRUE, amount |-> amountNum,
              fee |-> Num(Fee(amountNum.n, FeeFloor(v))),
              total |-> Num(amountNum.n + Fee(amountNum.n, FeeFloor(v)))]

FeesResponse(stage, code, provider, query, calculated, schedule) ==
    [op |-> "fees", stage |-> stage, code |-> code, ref |-> "", status |-> "",
     amount |-> Undef, phone |-> "", provider |-> provider, error |-> "",
     query |-> query, calculated |-> calculated, schedule |-> schedule]

\* v1 answers from the amount alone; v2 and v3 first fetch the provider's schedule
FeesBegin(v, query, ledger) ==
    IF v = "v1"
    THEN Step(FeesResponse("answered", 200, "", query, Calculated(v, query.amount),
                           "none"), <<>>, ledger)
    ELSE Step(FeesResponse("called", 0, "", query, NoEstimate, "none"),
              <<Call("fees", "", Undef, "", query)>>, ledger)

\* After the fetch.  When it failed, v2 answers its default schedule and
\* calculated: null.  v3's catch block reads `amount`, a const of the try block
\* that the catch block cannot see: building the answer throws a ReferenceError,
\* the handler's promise rejects, and either no answer is sent (rejections are
\* not handled) or the error middleware answers 500 (handled).
FeesEnd(v, call, out, ledger, handled) ==
    IF out.kind = "ok"
    THEN Step(FeesResponse("answered", 200, "ok", call.body,
                           Calculated(v, call.body.amount), "remote"), <<>>, ledger)
    ELSE IF v = "v2"
    THEN Step(FeesResponse("failed", 200, ProviderLabel(out), call.body, NoEstimate,
                           "default"), <<>>, ledger)
    ELSE Step(FeesResponse("failed", IF handled THEN 500 ELSE 0, ProviderLabel(out),
                           call.body, NoEstimate, "none"), <<>>, ledger)

-----------------------------------------------------------------------------
(* GET /api/health *)

\* v1 and v2 answer at once; v3 first probes the provider
HealthBegin(v, ledger) ==
    IF v = "v3"
    THEN Step(Response("health", "called", 0, "", "", Undef, "", "", ""),
              <<Call("health", "", Undef, "", NoBody)>>, ledger)
    ELSE Step(Response("health", "answered", 200, "", "operational", Undef, "", "", ""),
              <<>>, ledger)

\* The probe's catch block answering as the catch block of v2's handler does
HealthEndServiceError(v, call, out, ledger) ==
    IF out.kind = "ok"
    THEN Step(Response("health", "answered", 200, "", "operational", Undef, "", "ok", ""),
              <<>>, ledger)
    ELSE Step(Response("health", "failed", 500, "", "", Undef, "",
                       ProviderLabel(out), "Service error"), <<>>, ledger)

HealthEnd(v, call, out, ledger) ==
    IF out.kind = "ok"
    THEN Step(Response("health", "answered", 200, "", "operational", Undef, "", "ok", ""),
              <<>>, ledger)
    ELSE Step(Response("health", "failed", 200, "", "degraded", Undef, "",
                       ProviderLabel(out), "PayHero connection failed"), <<>>, ledger)

-----------------------------------------------------------------------------
(* The server: requests arrive, the provider answers, the clock advances *)

ExternalReference == "R1"

\* The requests of the ledger's life cycle: well-formed stk-pushes of two
\* amounts, with and without a reference of the caller's, and well-formed
\* withdrawals.
LedgerStkBodies ==
    [phone_number : {Str("0712345678")}, amount : {Num(Units(100)), Num(Units(200))},
     external_reference : {Undef, Str(ExternalReference)}]
LedgerWithdrawBodies ==
    [phone_number : {Str("0712345678")}, amount : {Num(Units(100))},
     network_code : {Str("63902")}]

\* The requests of the validation check.  Phones: none, local format,
\* international format with blanks, too short, bare subscriber digits, a number.
\* Amounts: none, 0, valid, "0", negative, 0.5, above the maximum, text that is
\* no number.
AnyPhones ==
    {Undef, Str(""), Str("0712345678"), Str(" +254 712 345 678 "), Str("25471234567"),
     Str("712345678"), Num(Units(254))}
AnyAmounts ==
    {Undef, Num(0), Num(Units(100)), Str("0"), Str("-5"), Num(500), Num(Units(150001)),
     Str("abc")}
AnyNetworks == {Undef, Str("63902"), Str("99999"), Num(Units(63902))}

AnyStkBodies ==
    [phone_number : AnyPhones, amount : AnyAmounts,
     external_reference : {Str(ExternalReference)}]
AnyWithdrawBodies ==
    [phone_number : AnyPhones, amount : AnyAmounts, network_code : AnyNetworks]

\* The references a status check or a delete may name
References == Ids(transactions) \cup {ExternalReference}

CreateOutcomes == {Ok(""), Http(400), NetworkError}
StatusOutcomes == {Ok(s) : s \in ProviderStatuses} \cup {Http(404), NetworkError}

NoResult == [ok |-> FALSE, value |-> Undef, msg |-> "(not called)"]

Init ==
    /\ variant \in Variants
    /\ transactions = <<>>
    /\ inflight = <<>>
    /\ now = 0
    /\ last = NoResponse
    /\ arg = Undef
    /\ res = NoResult

Creating == Cardinality({i \in 1..Len(inflight) : inflight[i].op \in {"stk", "wdr"}})

\* The model's bounds on a step: the calls in flight, and the records the ledger
\* may come to hold
Admits(st) ==
    /\ Len(inflight) + Len(st.calls) <= MaxInflight
    /\ \A i \in 1..Len(st.calls) :
          st.calls[i].op \in {"stk", "wdr"} => Len(transactions) + Creating < MaxTx

\* A request arrives and its handler runs to its answer or to its await
Take(st) ==
    /\ Admits(st)
    /\ transactions' = st.ledger
    /\ inflight' = inflight \o st.calls
    /\ last' = st.resp
    /\ UNCHANGED <<variant, now, arg, res>>

Remove(calls, i) == SubSeq(calls, 1, i - 1) \o SubSeq(calls, i + 1, Len(calls))

\* The provider call i ends and its handler runs to its answer
Resume(i, st) ==
    /\ transactions' = st.ledger
    /\ inflight' = Remove(inflight, i)
    /\ last' = st.resp
    /\ UNCHANGED <<variant, now, arg, res>>

StkPush(bodies) ==
    \E body \in bodies, r \in 0..MaxRand :
        Take(StkPushBegin(variant, body, transactions, now, r))

Withdraw(bodies) ==
    \E body \in bodies, r \in 0..MaxRand :
        Take(WithdrawBegin(variant, body, transactions, now, r))

StatusCheck ==
    \E reference \in References : Take(StatusBegin(variant, reference, transactions))

Delete ==
    \E reference \in References : Take(DeleteTransaction(variant, reference, transactions))

StkPushReply ==
    \E i \in 1..Len(inflight), out \in CreateOutcomes :
        /\ inflight[i].op = "stk"
        /\ Resume(i, StkPushEnd(variant, inflight[i], out, transactions, now))

WithdrawReply ==
    \E i \in 1..Len(inflight), out \in CreateOutcomes :
        /\ inflight[i].op = "wdr"
        /\ Resume(i, WithdrawEnd(variant, inflight[i], out, transactions, now))

StatusReply ==
    \E i \in 1..Len(inflight), out \in StatusOutcomes :
        /\ inflight[i].op = "status"
        /\ Resume(i, StatusEnd(variant, inflight[i], out, transactions, now))

Tick ==
    /\ now < MaxClock
    /\ now' = now + 1
    /\ UNCHANGED <<variant, transactions, inflight, last, arg, res>>

\* The ledger's life cycle
Next ==
    \/ StkPush(LedgerStkBodies)
    \/ Withdraw(LedgerWithdrawBodies)
    \/ StatusCheck
    \/ Delete
    \/ StkPushReply
    \/ WithdrawReply
    \/ StatusReply
    \/ Tick

Spec == Init /\ [][Next]_vars

\* Requests of every shape, well-formed or not, and the provider's answers
NextValidation ==
    \/ StkPush(AnyStkBodies)
    \/ Withdraw(AnyWithdrawBodies)
    \/ StkPushReply
    \/ WithdrawReply

SpecValidation == Init /\ [][NextValidation]_vars

-----------------------------------------------------------------------------
(* The read-only routes beside the routes that fill the ledger *)

QueryStkBodies ==
    [phone_number : {Str("0712345678")}, amount : {Num(Units(100))},
     external_reference : {Undef}]

\* req.query of the listing: the kind wanted, the limit and the page
ListQueries ==
    [type : {Undef, Str("C2B"), Str("zzz")},
     limit : {Undef, Str("1"), Str("0"), Str("-1"), Str("abc")},
     page : {Undef, Str("2")}]

\* req.query of the fee estimate
FeeQueries == [amount : {Undef, Str("1000"), Str("100"), Str("abc")}]

\* How a fetch of the provider's public pages ends
ProbeOutcomes == {Ok(""), Http(500), NetworkError}

List ==
    \E query \in ListQueries : Take(ListTransactions(variant, query, transactions))

Fees ==
    \E query \in FeeQueries : Take(FeesBegin(variant, query, transactions))

FeesReply ==
    \E i \in 1..Len(inflight), out \in ProbeOutcomes, handled \in BOOLEAN :
        /\ inflight[i].op = "fees"
        /\ Resume(i, FeesEnd(variant, inflight[i], out, transactions, handled))

Health == Take(HealthBegin(variant, transactions))

HealthReply ==
    \E i \in 1..Len(inflight), out \in ProbeOutcomes :
        /\ inflight[i].op = "health"
        /\ Resume(i, HealthEnd(variant, inflight[i], out, transactions))

NextQueries ==
    \/ StkPush(QueryStkBodies)
    \/ Withdraw(LedgerWithdrawBodies)
    \/ StkPushReply
    \/ WithdrawReply
    \/ Tick
    \/ List
    \/ Fees
    \/ FeesReply
    \/ Health
    \/ HealthReply

SpecQueries == Init /\ [][NextQueries]_vars

-----------------------------------------------------------------------------
(* A provider that may never answer *)

\* Whether PAYHERO_CONFIG sets a timeout: v2 sets 30000 ms; v1 and v3 set none,
\* and the client then waits without limit.
HasTimeout(v) == v = "v2"

\* The continuation of the handler that awaits the call
HandlerEnd(v, call, out, ledger, t) ==
    CASE call.op = "stk" -> StkPushEnd(v, call, out, ledger, t)
      [] call.op = "wdr" -> WithdrawEnd(v, call, out, ledger, t)
      [] call.op = "status" -> StatusEnd(v, call, out, ledger, t)

\* The client's timer expires: the awaited call fails without a response
Timeout ==
    \E i \in 1..Len(inflight) :
        /\ HasTimeout(variant)
        /\ Resume(i, HandlerEnd(variant, inflight[i], NetworkError, transactions, now))

NextUnanswered ==
    \/ StkPush(QueryStkBodies)
    \/ Withdraw(LedgerWithdrawBodies)
    \/ StatusCheck
    \/ StkPushReply
    \/ WithdrawReply
    \/ StatusReply
    \/ Timeout

\* The provider is free never to answer; a timer that is set does expire.
SpecUnanswered == Init /\ [][NextUnanswered]_vars /\ WF_vars(Timeout)

-----------------------------------------------------------------------------
(* formatPhoneNumber on its own: Init draws the input, the action applies it *)

PhoneLeads == {"", "0", "+", "254", "+254", "0254", " 0", "+0"}
PhoneSubscribers ==
    {"712345678", "112345678", "71234567", "7123456789", "7123x5678", "712 345 678",
     "abcdefghi", "912345678 "}
PhoneArgs ==
    {Str(lead \o sub) : lead \in PhoneLeads, sub \in PhoneSubscribers}
        \cup {Str(""), Num(Units(254))}

InitPhone ==
    /\ variant \in Variants
    /\ transactions = <<>>
    /\ inflight = <<>>
    /\ now = 0
    /\ last = NoResponse
    /\ arg \in PhoneArgs
    /\ res = NoResult

CallFormatPhoneNumber ==
    /\ res = NoResult
    /\ res' = formatPhoneNumber(variant, arg)
    /\ UNCHANGED <<variant, transactions, inflight, now, last, arg>>

SpecPhone == InitPhone /\ [][CallFormatPhoneNumber]_vars

-----------------------------------------------------------------------------
(* validateAmount on its own *)

\* Amounts as a JSON body carries them.  Numbers: 0, 0.5, 0.999, 1, 1.5, 100,
\* 150000, 150000.001, 150001, -5.  Texts: empty, no number, numbers, a number
\* followed by text, a number with a thousands separator.
AmountArgs ==
    {Undef, Num(0), Num(500), Num(999), Num(Units(1)), Num(1500), Num(Units(100)),
     Num(Units(MAX_AMOUNT)), Num(Units(MAX_AMOUNT) + 1), Num(Units(MAX_AMOUNT + 1)),
     Num(0 - Units(5)),
     Str(""), Str("abc"), Str("100"), Str("100abc"), Str("12.50"), Str("-5"), Str("0"),
     Str("0.5"), Str("150000"), Str("150001"), Str("1,000"), Str("12 50"), Str("1x")}

InitAmount ==
    /\ variant \in Variants
    /\ transactions = <<>>
    /\ inflight = <<>>
    /\ now = 0
    /\ last = NoResponse
    /\ arg \in AmountArgs
    /\ res = NoResult

CallValidateAmount ==
    /\ res = NoResult
    /\ res' = validateAmount(variant, arg)
    /\ UNCHANGED <<variant, transactions, inflight, now, last, arg>>

SpecAmount == InitAmount /\ [][CallValidateAmount]_vars

-----------------------------------------------------------------------------
(* The claims *)

Lookup(ledger, ref) == ledger[FindIndex(ledger, ref)]

IsDigits(s) == \A i \in 1..Len(s) : CharAt(s, i) \in Digits

\* C1: creating a transaction under a reference the ledger already holds never
\* replaces the stored amount or phone: over any step, a reference that stays in
\* the ledger keeps the amount and the phone it is looked up with.
C1_NoSilentOverwrite ==
    [][\A ref \in Ids(transactions) \cap Ids(transactions') :
          /\ Lookup(transactions', ref).amount = Lookup(transactions, ref).amount
          /\ Lookup(transactions', ref).phone = Lookup(transactions, ref).phone]_vars

PendingStates == {"QUEUED", "PENDING", "PROCESSING"}

\* C2: when a validated stk-push or withdraw has issued its provider call the
\* ledger already holds a pending entry for its reference, and when that call has
\* failed the ledger still holds the entry, pending.
C2_EntryBeforeCall ==
    (last.op \in {"stk", "wdr"} /\ last.stage \in {"called", "failed"})
        => /\ last.ref \in Ids(transactions)
           /\ Lookup(transactions, last.ref).status \in PendingStates

\* C3: a step that rejects an stk-push or withdraw in validation issues no
\* provider call and leaves the ledger as it was.
C3_RejectionLeavesNoTrace ==
    [][(last'.op \in {"stk", "wdr"} /\ last'.stage = "validation")
          => (transactions' = transactions /\ inflight' = inflight)]_vars

\* C3 witness: a request was rejected in validation while the ledger held a record.
C3_Witness ==
    /\ last.op \in {"stk", "wdr"}
    /\ last.stage = "validation"
    /\ Len(transactions) > 0

TerminalStates == {"SUCCESS", "FAILED"}

\* C4: once a record is SUCCESS or FAILED, no status-check step changes its status.
C4_TerminalStatusStays ==
    [][last'.op = "status"
          => \A ref \in Ids(transactions) :
                Lookup(transactions, ref).status \in TerminalStates
                    => /\ ref \in Ids(transactions')
                       /\ Lookup(transactions', ref).status
                              = Lookup(transactions, ref).status]_vars

RECURSIVE AmountsOf(_, _)
AmountsOf(ledger, n) == IF n = 0 THEN 0 ELSE ledger[n].amount + AmountsOf(ledger, n - 1)

\* C5: the listing's statistics satisfy successful + failed + pending = total,
\* pending counting every record that is neither SUCCESS nor FAILED, and
\* total_amount is the sum of the amounts of all records.
C5_StatisticsAddUp ==
    LET stats == Statistics(variant, transactions)
        open == {i \in 1..Len(transactions) : transactions[i].status \notin TerminalStates}
    IN  /\ stats.successful + stats.failed + stats.pending = stats.total
        /\ stats.pending = Cardinality(open)
        /\ stats.total = Len(transactions)
        /\ stats.total_amount = AmountsOf(transactions, Len(transactions))

\* C6: a status check the provider answers with 404, for a reference the ledger
\* holds, is answered 200 with the status, amount and phone of the ledger's record.
C6_NotFoundFallsBackToLedger ==
    (last.op = "status" /\ last.provider = "404" /\ last.ref \in Ids(transactions))
        => /\ last.code = 200
           /\ last.status = Lookup(transactions, last.ref).status
           /\ last.amount = Num(Lookup(transactions, last.ref).amount)
           /\ last.phone = Lookup(transactions, last.ref).phone

\* C7: a status check for a reference unknown to the provider (404) and absent
\* from the ledger is answered 404.
C7_UnknownEverywhereIs404 ==
    (last.op = "status" /\ last.provider = "404" /\ last.ref \notin Ids(transactions))
        => last.code = 404

\* C8: every stk-push or withdraw rejected in validation is answered 400.
C8_RejectionIs400 ==
    (last.op \in {"stk", "wdr"} /\ last.stage = "validation") => last.code = 400

\* The text the claims reduce a phone to: whitespace stripped, a leading 0
\* replaced by 254, a leading + dropped
Reduced(s) ==
    LET t == RemoveWhitespace(s)
    IN  IF StartsWith(t, "0") THEN "254" \o Substring(t, 1)
        ELSE IF StartsWith(t, "+") THEN Substring(t, 1)
        ELSE t

IsCanonicalPhone(s) == Len(s) = 12 /\ IsDigits(s) /\ StartsWith(s, "254")

\* C9: formatPhoneNumber fails for every string that does not reduce to 12
\* digits starting with 254, and what it returns is 12 digits starting with 254.
C9_OnlyCanonicalPhones ==
    (res # NoResult /\ arg.t = "str")
        => /\ ~IsCanonicalPhone(Reduced(arg.s)) => ~res.ok
           /\ res.ok => (res.value.t = "str" /\ IsCanonicalPhone(res.value.s))

IsLocalWithZero(s) == Len(s) = 10 /\ IsDigits(s) /\ StartsWith(s, "0")
IsBareLocal(s) == Len(s) = 9 /\ IsDigits(s) /\ (StartsWith(s, "7") \/ StartsWith(s, "1"))

\* C10 as stated: a local number, written 0 and 9 digits or as the bare 9 digits
\* beginning with 7 or 1, is returned as 254 and its 9 subscriber digits.
C10_LocalFormatsAccepted ==
    (res # NoResult /\ arg.t = "str")
        => /\ IsLocalWithZero(arg.s) => (res.ok /\ res.value = Str("254" \o Substring(arg.s, 1)))
           /\ IsBareLocal(arg.s) => (res.ok /\ res.value = Str("254" \o arg.s))

\* C10 as amended: a local number written 0 and 9 digits is returned as 254 and
\* its 9 subscriber digits; the bare 9 digits are rejected.
C10_LeadingZeroAccepted ==
    (res # NoResult /\ arg.t = "str")
        => /\ IsLocalWithZero(arg.s) => (res.ok /\ res.value = Str("254" \o Substring(arg.s, 1)))
           /\ IsBareLocal(arg.s) => (~res.ok /\ res.msg = "Phone number must start with 254")

\* C10 witness: formatPhoneNumber has returned for a number written 0 and 9 digits.
C10_Witness == res # NoResult /\ res.ok /\ arg.t = "str" /\ IsLocalWithZero(arg.s)

\* Whether the text s is a number and nothing else: an optional sign, digits,
\* an optional fraction
IsNumberText(s) ==
    LET u == IF StartsWith(s, "-") THEN Substring(s, 1) ELSE s
        k == DigitRun(u)
        rest == Substring(u, k)
    IN  /\ k >= 1
        /\ \/ rest = ""
           \/ /\ StartsWith(rest, ".")
              /\ Len(rest) >= 2
              /\ DigitRun(Substring(rest, 1)) = Len(rest) - 1

\* Whether the value denotes a number: a number, or a text that is one
DenotesNumber(v) == v.t = "num" \/ (v.t = "str" /\ IsNumberText(v.s))

\* C11: validateAmount returns every amount a with 1 <= a <= 150000 unchanged, as
\* a number, and fails for every input that is below 1, above 150000, or not a
\* number (text that only begins with digits included).
C11_AmountWithinBounds ==
    res # NoResult
        => LET a == parseFloat(arg).n
               within == DenotesNumber(arg) /\ Units(1) <= a /\ a <= Units(150000)
           IN  /\ within => res = Return(Num(a))
               /\ ~within => ~res.ok

\* The references of the stk-push and withdraw requests the server holds: those
\* of the ledger's records and of the handlers awaiting the provider
HeldReferences ==
    Ids(transactions)
        \cup {inflight[i].ref : i \in {j \in 1..Len(inflight) : inflight[j].op \in {"stk", "wdr"}}}

\* C12: a reference generated for a request that supplies none differs from every
\* reference generated before it, within the same millisecond or not.
C12_GeneratedReferencesDistinct ==
    [][(/\ last'.op \in {"stk", "wdr"}
        /\ last'.stage = "called"
        /\ inflight' # inflight
        /\ last'.ref # ExternalReference)
          => last'.ref \notin HeldReferences]_vars

\* What a successful stk-push leaves behind, the new record's status being one of
\* `statuses`: a non-empty reference, the caller's when the request carries one,
\* and under it a C2B record with the normalized phone and the requested amount.
PushStoredAs(statuses) ==
    \A i \in 1..Len(inflight) :
        (/\ inflight[i].op = "stk"
         /\ inflight' = Remove(inflight, i)
         /\ last'.op = "stk"
         /\ last'.stage = "answered"
         /\ last'.code = 200)
            => LET body == inflight[i].body
                   rec == Lookup(transactions', last'.ref)
               IN  /\ last'.ref # ""
                   /\ Truthy(body.external_reference)
                         => last'.ref = body.external_reference.s
                   /\ last'.ref \in Ids(transactions')
                   /\ rec.type = "C2B"
                   /\ rec.phone = Reduced(body.phone_number.s)
                   /\ IsCanonicalPhone(rec.phone)
                   /\ Num(rec.amount) = body.amount
                   /\ rec.status \in statuses

\* C13 as stated: a successful stk-push returns a non-empty reference, the
\* caller's when one was supplied, and the ledger then holds under it a C2B record
\* with the normalized phone, the validated amount and status PENDING.
C13_PushStoredPending == [][PushStoredAs({"PENDING"})]_vars

\* C13 as amended: the same, the record's status being PENDING, or QUEUED in the
\* iteration that keeps the ledger in an array.
C13_PushStoredPendingOrQueued ==
    [][PushStoredAs(IF variant = "v3" THEN {"QUEUED"} ELSE {"PENDING"})]_vars

\* C13 witness: an stk-push under the caller's reference has succeeded in the
\* array iteration and its record is stored QUEUED.
C13_Witness ==
    /\ variant = "v3"
    /\ last.op = "stk"
    /\ last.stage = "answered"
    /\ last.ref = ExternalReference
    /\ Lookup(transactions, ExternalReference).status = "QUEUED"

\* The ledger without the records of reference ref
Without(ledger, ref) ==
    LET Other(rec) == rec.id # ref
    IN  SelectSeq(ledger, Other)

\* C14: where the server offers the delete route, a delete answers 200 and says
\* whether a record was removed: a record of that reference is removed and every
\* other record stays as it was; with no such record (so on a second delete) the
\* answer says nothing was removed and the ledger stays as it was.
C14_DeleteIsIdempotent ==
    [][(last'.op = "delete" /\ now' = now /\ HasDeleteRoute(variant))
          => /\ last'.code = 200
             /\ transactions' = Without(transactions, last'.ref)
             /\ last'.ref \notin Ids(transactions')
             /\ last'.error = IF last'.ref \in Ids(transactions)
                              THEN "Transaction cleared" ELSE "Transaction not found"]_vars

\* C14 witness: a delete has removed a record and another record is still there.
C14_Witness ==
    /\ HasDeleteRoute(variant)
    /\ last.op = "delete"
    /\ last.error = "Transaction cleared"
    /\ last.ref \notin Ids(transactions)
    /\ Len(transactions) = 1

\* C17: the health route always answers, reports a degraded status when its
\* probe of the provider failed, and leaves the ledger as it was.
C17_HealthAlwaysAnswers ==
    [][last'.op = "health"
          => /\ transactions' = transactions
             /\ last'.stage # "called" => last'.code = 200
             /\ last'.provider \notin {"", "ok"} => last'.status = "degraded"]_vars

\* C17 witness: the probe has failed while the ledger held a record, and the
\* route has answered.
C17_Witness ==
    /\ last.op = "health"
    /\ last.provider = "net"
    /\ last.status = "degraded"
    /\ Len(transactions) > 0

\* The whole number a query parameter denotes, 0 when it denotes none
WholeOf(v) == IF v.t = "str" /\ IsNumberText(v.s) /\ DigitRun(v.s) = Len(v.s)
              THEN DigitsValue(v.s) ELSE 0

Least(a, b) == IF a < b THEN a ELSE b

\* C15: the listing returns records of the wanted kind, newest first, cut to the
\* requested page; a limit or a page that is 0, negative or no number counts as
\* at least 1.
C15_ListingIsClampedPage ==
    last.op = "list"
        => LET q == last.query
               items == last.items
               matching == {i \in 1..Len(transactions) :
                               q.type \in {Str("C2B"), Str("B2C")}
                                   => transactions[i].type = q.type.s}
               limit == WholeOf(q.limit)
               page == IF WholeOf(q.page) >= 1 THEN WholeOf(q.page) ELSE 1
               before == IF limit >= 1 THEN (page - 1) * limit ELSE 0
               left == IF Cardinality(matching) > before
                       THEN Cardinality(matching) - before ELSE 0
           IN  /\ \A k \in 1..Len(items) : \E i \in matching : items[k] = transactions[i]
               /\ \A j, k \in 1..Len(items) :
                     j < k => items[j].timestamp >= items[k].timestamp
               /\ limit >= 1 => Len(items) = Least(limit, left)
               /\ limit = 0 /\ q.limit # Undef => Len(items) >= Least(1, left)
               /\ page = 1
                     => \A i \in matching :
                           (\A k \in 1..Len(items) : items[k] # transactions[i])
                               => \A k \in 1..Len(items) :
                                     items[k].timestamp >= transactions[i].timestamp

\* C16: a fee estimate asked for a valid positive amount when the fetch of the
\* provider's schedule fails is still answered 200 with fee = max(10, 1.5% of
\* the amount) and total = amount + fee: 15 and 1015 for the amount 1000.
C16_EstimateSurvivesFetchFailure ==
    (/\ last.op = "fees"
     /\ last.stage = "failed"
     /\ DenotesNumber(last.query.amount)
     /\ parseFloat(last.query.amount).n > 0)
        => LET a == parseFloat(last.query.amount).n
               share == (a * 15) \div 1000
               fee == IF share > Units(10) THEN share ELSE Units(10)
           IN  /\ last.code = 200
               /\ last.calculated.present
               /\ last.calculated.fee = Num(fee)
               /\ last.calculated.total = Num(a + fee)
               /\ last.query.amount = Str("1000")
                     => /\ last.calculated.fee = Num(Units(15))
                        /\ last.calculated.total = Num(Units(1015))
               /\ last.schedule \in {"none", "default"}

\* C18: the status stored under a reference that stays in the ledger changes
\* only in a status check of that reference: no other request changes it.
C18_OnlyStatusCheckChangesStatus ==
    [][\A ref \in Ids(transactions) \cap Ids(transactions') :
          Lookup(transactions', ref).status # Lookup(transactions, ref).status
              => (last'.op = "status" /\ last'.ref = ref)]_vars

\* C19: a status check changes nothing in the ledger but the status, the
\* last-checked time and the stored response of the record looked up under the
\* checked reference: id, kind, amount, phone and creation time of every record
\* stay, every other record stays whole, no record is added or removed, and with
\* no record of the reference the ledger stays as it was.
C19_StatusCheckTouchesOnlyItsRecord ==
    [][last'.op = "status"
          => /\ Len(transactions') = Len(transactions)
             /\ \A i \in 1..Len(transactions) :
                   /\ transactions'[i].id = transactions[i].id
                   /\ transactions'[i].type = transactions[i].type
                   /\ transactions'[i].amount = transactions[i].amount
                   /\ transactions'[i].phone = transactions[i].phone
                   /\ transactions'[i].timestamp = transactions[i].timestamp
                   /\ transactions'[i] # transactions[i]
                         => i = FindIndex(transactions, last'.ref)
             /\ last'.ref \notin Ids(transactions) => transactions' = transactions]_vars

\* C19 witness: a status check has stored SUCCESS in one of two records.
C19_Witness ==
    /\ last.op = "status"
    /\ last.stage = "answered"
    /\ Len(transactions) = 2
    /\ last.ref \in Ids(transactions)
    /\ Lookup(transactions, last.ref).status = "SUCCESS"
    /\ Lookup(transactions, last.ref).last_checked = now

\* C20: every record of the ledger has an amount from 1 to 150000 and a phone of
\* 12 characters that starts with 254.
C20_RecordsWithinBounds ==
    \A i \in 1..Len(transactions) :
        /\ Units(1) <= transactions[i].amount
        /\ transactions[i].amount <= Units(150000)
        /\ Len(transactions[i].phone) = 12
        /\ StartsWith(transactions[i].phone, "254")

\* C21: every provider call ends, by the timeout when the provider never
\* answers, so every request that awaits the provider is answered in the end.
C21_EveryCallEnds == (Len(inflight) > 0) ~> (Len(inflight) = 0)

\* C22: a status check that completes after its reference was deleted does not
\* bring the record back, and a delete that completes while the status check
\* still waits removes the record: either way the ledger ends without a record
\* of the reference.
C22_DeletedRecordStaysDeleted ==
    [][/\ (last'.op = "status" /\ last'.stage # "called"
              /\ last'.ref \notin Ids(transactions))
            => last'.ref \notin Ids(transactions')
       /\ (last'.op = "delete" /\ now' = now /\ HasDeleteRoute(variant))
            => last'.ref \notin Ids(transactions')]_vars

\* C22 witness: a delete has removed the record of a reference while a status
\* check of that reference awaits the provider.
C22_Witness ==
    /\ last.op = "delete"
    /\ last.error = "Transaction cleared"
    /\ last.ref \notin Ids(transactions)
    /\ \E i \in 1..Len(inflight) :
          inflight[i].op = "status" /\ inflight[i].ref = last.ref

====
